---- MODULE Spec2Model ----
(***************************************************************************)
(* Phase oracles for arithmetic comparisons (less-than, greater-than,      *)
(* interval) and the linear-depth multi-controlled gate they are built on. *)
(*                                                                         *)
(* The builders are pure functions from their arguments to a circuit (a    *)
(* sequence of gates) or to a Python exception.  Each builder is an        *)
(* operator computed as the code computes it; the state machine is a       *)
(* caller that makes one call and holds what came back.                    *)
(***************************************************************************)
EXTENDS Integers, Sequences, FiniteSets, TLC

VARIABLES pc, call, result

vars == <<pc, call, result>>

(***************************************************************************)
(* Bounds of the model.                                                    *)
(***************************************************************************)
\* widest register the oracle builders are called with
MaxQubits == 6
\* most controls linear_mc_gate is called with in every order of the wires
MaxPermuted == 4
\* most controls linear_mc_gate is called with (controls 0..c-1, target c)
MaxControls == 16
\* widest block the ladder builders are called with directly
MaxLadder == 8

(***************************************************************************)
(* Python helpers.                                                         *)
(***************************************************************************)
RECURSIVE Pow2(_)
Pow2(k) == IF k <= 0 THEN 1 ELSE 2 * Pow2(k - 1)

\* list(range(start, stop)) and list(range(start, stop, -1))
RECURSIVE RangeUp(_, _)
RangeUp(start, stop) ==
    IF start >= stop THEN <<>> ELSE <<start>> \o RangeUp(start + 1, stop)

RECURSIVE RangeDown(_, _)
RangeDown(start, stop) ==
    IF start <= stop THEN <<>> ELSE <<start>> \o RangeDown(start - 1, stop)

\* bin(number)[2:], most significant digit first
RECURSIVE Bin(_)
Bin(number) ==
    IF number < 2 THEN <<number>> ELSE Bin(number \div 2) \o <<number % 2>>

\* '0' * k
RECURSIVE Zeros(_)
Zeros(k) == IF k <= 0 THEN <<>> ELSE <<0>> \o Zeros(k - 1)

\* s.rstrip('0')
RECURSIVE RStrip0(_)
RStrip0(s) ==
    IF s = <<>> THEN <<>>
    ELSE IF s[Len(s)] = 0 THEN RStrip0(SubSeq(s, 1, Len(s) - 1)) ELSE s

(***************************************************************************)
(* Values a call hands back.  kind is "str" (a binary string, in bits),    *)
(* "circuit" (width and gates), "None", or "raise" (the exception named in *)
(* raised: nothing is returned).  printed records a message on stdout.     *)
(***************************************************************************)
NoValue ==
    [kind |-> "None", bits |-> <<>>, width |-> 0, gates |-> <<>>,
     raised |-> "", printed |-> FALSE]

Str(bits) == [NoValue EXCEPT !.kind = "str", !.bits = bits]

Circuit(width, gates) ==
    [NoValue EXCEPT !.kind = "circuit", !.width = width, !.gates = gates]

Raise(exc, printed) ==
    [NoValue EXCEPT !.kind = "raise", !.raised = exc, !.printed = printed]

(***************************************************************************)
(* Gates.  wires are the wires the gate acts on, in argument order.        *)
(*   x, z, h      one wire                                                 *)
(*   mcx          controls then target                                     *)
(*   circuit      a circuit appended as one instruction; body holds its    *)
(*                gates, body wire j being wires[j+1]                      *)
(*   diagonal     diag[b+1] is the phase of basis state b                  *)
(*   cu           controlled U^(1/p), inverted when neg; control, target   *)
(*   crx          controlled RX(pi/2^p), angle negated when neg            *)
(***************************************************************************)
Gate(op, wires) ==
    [op |-> op, wires |-> wires, p |-> 0, neg |-> FALSE, body |-> <<>>,
     diag |-> <<>>]

XGate(w) == Gate("x", <<w>>)
ZGate(w) == Gate("z", <<w>>)
HGate(w) == Gate("h", <<w>>)
MCXGate(wires) == Gate("mcx", wires)
ToGate(circuit, wires) == [Gate("circuit", wires) EXCEPT !.body = circuit.gates]
Diagonal(v, wires) == [Gate("diagonal", wires) EXCEPT !.diag = v]
CUGate(denominator, inv, control, target) ==
    [Gate("cu", <<control, target>>) EXCEPT !.p = denominator, !.neg = inv]
CRXGate(exponent, negative, control, target) ==
    [Gate("crx", <<control, target>>) EXCEPT !.p = exponent, !.neg = negative]

(***************************************************************************)
(* to_binary(number, nbits): the zero-padded binary string, or, when nbits *)
(* is too small, a printed message and an implicit None.                   *)
(***************************************************************************)
to_binary(number, nbits) ==
    LET binary == Bin(number) IN
    IF nbits < Len(binary)
    THEN [NoValue EXCEPT !.printed = TRUE]
    ELSE Str(Zeros(nbits - Len(binary)) \o binary)

(***************************************************************************)
(* multi_control_z(nqubits).  file names the module the call is made in:   *)
(* code_oracle.py builds H, MCX, H on the last wire; functions_oracles.py  *)
(* calls linear_mc_gate with the keyword targ, which linear_mc_gate does   *)
(* not have, so the call raises TypeError before any gate is appended.     *)
(***************************************************************************)
multi_control_z(file, nqubits) ==
    IF file = "functions_oracles"
    THEN Raise("TypeError", FALSE)
    ELSE Circuit(nqubits,
                 <<HGate(nqubits - 1),
                   MCXGate(RangeUp(0, nqubits)),
                   HGate(nqubits - 1)>>)

(***************************************************************************)
(* oracle_less_than(number, nqubits).                                      *)
(***************************************************************************)
\* the first digit: X Z X on the top wire for a 1, a single X for a 0
first_digit(num_binary, nqubits) ==
    IF num_binary[1] = 1
    THEN <<XGate(nqubits - 1), ZGate(nqubits - 1), XGate(nqubits - 1)>>
    ELSE <<XGate(nqubits - 1)>>

\* the loop over the remaining digits, from digit `position` on
RECURSIVE remaining_digits(_, _, _, _, _)
remaining_digits(file, num_binary, nqubits, position, gates) ==
    IF position > Len(num_binary) - 1
    THEN Circuit(nqubits, gates)
    ELSE IF num_binary[position + 1] = 0
    THEN remaining_digits(file, num_binary, nqubits, position + 1,
                          Append(gates, XGate(nqubits - position - 1)))
    ELSE LET multi_z == multi_control_z(file, position + 1) IN
         IF multi_z.kind = "raise"
         THEN multi_z
         ELSE remaining_digits(file, num_binary, nqubits, position + 1,
                  gates \o <<XGate(nqubits - position - 1),
                             ToGate(multi_z,
                                    RangeDown(nqubits - 1,
                                              nqubits - position - 2)),
                             XGate(nqubits - position - 1)>>)

\* a final pass that appends nothing
restore_zero_bits_omitted(num_binary, nqubits, position) == <<>>

\* the final pass: an X on the wire of every 0 digit
RECURSIVE restore_zero_bits(_, _, _)
restore_zero_bits(num_binary, nqubits, position) ==
    IF position > Len(num_binary) - 1
    THEN <<>>
    ELSE (IF num_binary[position + 1] = 0
          THEN <<XGate(nqubits - position - 1)>>
          ELSE <<>>)
         \o restore_zero_bits(num_binary, nqubits, position + 1)

oracle_less_than(file, number, nqubits) ==
    LET padded == to_binary(number, nqubits) IN
    IF padded.kind = "None"
    THEN \* None.rstrip
         Raise("AttributeError", padded.printed)
    ELSE LET num_binary == RStrip0(padded.bits) IN
         IF num_binary = <<>>
         THEN \* num_binary[0] of the empty string
              Raise("IndexError", FALSE)
         ELSE LET looped ==
                      remaining_digits(file, num_binary, nqubits, 1,
                                       first_digit(num_binary, nqubits))
              IN  IF looped.kind = "raise"
                  THEN looped
                  ELSE Circuit(nqubits,
                               looped.gates
                               \o restore_zero_bits(num_binary, nqubits, 0))

(***************************************************************************)
(* The oracles built with the less-than oracle (functions_oracles.py).     *)
(***************************************************************************)
\* circuit.z(0); circuit.x(0); circuit.z(0); circuit.x(0)
sign_flip == <<ZGate(0), XGate(0), ZGate(0), XGate(0)>>

oracle_greater_than(number, nqubits) ==
    LET circuit == oracle_less_than("functions_oracles", number + 1, nqubits)
    IN  IF circuit.kind = "raise"
        THEN circuit
        ELSE Circuit(nqubits, circuit.gates \o sign_flip)

oracle_interval(lower_boundary, upper_boundary, nqubits) ==
    LET less == oracle_less_than("functions_oracles", upper_boundary, nqubits)
        greater == oracle_greater_than(lower_boundary, nqubits)
    IN  IF less.kind = "raise" THEN less
        ELSE IF greater.kind = "raise" THEN greater
        ELSE Circuit(nqubits,
                     <<ToGate(less, RangeUp(0, nqubits)),
                       ToGate(greater, RangeUp(0, nqubits))>>
                     \o sign_flip)

(***************************************************************************)
(* The oracle built with a diagonal gate.                                  *)
(***************************************************************************)
\* [-1]*number + [1]*(N-number)
array_less_than(number, N) ==
    [i \in 1..(IF number > N THEN number ELSE N) |->
        IF i <= number THEN -1 ELSE 1]

\* Diagonal(v) takes 2^k entries and is appended on range(nqubits)
diagonal_oracle_less_than(number, nqubits) ==
    LET v == array_less_than(number, Pow2(nqubits)) IN
    IF Len(v) # Pow2(nqubits)
    THEN Raise("CircuitError", FALSE)
    ELSE Circuit(nqubits, <<Diagonal(v, RangeUp(0, nqubits))>>)

(***************************************************************************)
(* What a circuit of X, Z, H, MCX and diagonal gates does to a basis       *)
(* state.  Wire q holds bit q of the basis state's number.  A state is the *)
(* function from the basis states of non-zero amplitude to that amplitude  *)
(* times sqrt(2)^hs, an integer, hs counting the H gates applied.          *)
(***************************************************************************)
Bit(b, w) == (b \div Pow2(w)) % 2

Flip(b, w) == IF Bit(b, w) = 0 THEN b + Pow2(w) ELSE b - Pow2(w)

\* compose / append at a wire mapping: body wire j becomes wires[j+1]
Remap(body, wires) ==
    [i \in DOMAIN body |->
        [body[i] EXCEPT !.wires = [j \in DOMAIN @ |-> wires[@[j] + 1]]]]

\* the primitive gates of a circuit, appended circuits inlined
RECURSIVE Flatten(_)
Flatten(gates) ==
    IF gates = <<>> THEN <<>>
    ELSE LET g == Head(gates) IN
         (IF g.op = "circuit" THEN Flatten(Remap(g.body, g.wires)) ELSE <<g>>)
         \o Flatten(Tail(gates))

BasisState(x) == [amp |-> (x :> 1), hs |-> 0]

AmpAt(amp, b) == IF b \in DOMAIN amp THEN amp[b] ELSE 0

AllOnes(b, wires) == \A i \in DOMAIN wires : Bit(b, wires[i]) = 1

McxImage(b, wires) ==
    IF AllOnes(b, SubSeq(wires, 1, Len(wires) - 1))
    THEN Flip(b, wires[Len(wires)])
    ELSE b

ApplyGate(g, st) ==
    LET amp == st.amp
        w == g.wires[1]
    IN  CASE g.op = "x" ->
                [st EXCEPT !.amp = [b \in {Flip(k, w) : k \in DOMAIN amp} |->
                                       amp[Flip(b, w)]]]
          [] g.op = "z" ->
                [st EXCEPT !.amp = [b \in DOMAIN amp |->
                                       IF Bit(b, w) = 1 THEN -amp[b] ELSE amp[b]]]
          [] g.op = "mcx" ->
                [st EXCEPT !.amp =
                    [b \in {McxImage(k, g.wires) : k \in DOMAIN amp} |->
                        amp[McxImage(b, g.wires)]]]
          [] g.op = "diagonal" ->
                [st EXCEPT !.amp = [b \in DOMAIN amp |-> g.diag[b + 1] * amp[b]]]
          [] g.op = "h" ->
                LET val(b) ==
                        IF Bit(b, w) = 0
                        THEN AmpAt(amp, b) + AmpAt(amp, Flip(b, w))
                        ELSE AmpAt(amp, Flip(b, w)) - AmpAt(amp, b)
                    cand == DOMAIN amp \cup {Flip(k, w) : k \in DOMAIN amp}
                IN  [amp |-> [b \in {k \in cand : val(k) # 0} |-> val(b)],
                     hs |-> st.hs + 1]

\* the amplitudes of a state are computed before the next gate is applied
Evaluated(st) == st.amp = st.amp

RECURSIVE RunGates(_, _)
RunGates(gates, st) ==
    IF gates = <<>> THEN st
    ELSE LET next == ApplyGate(Head(gates), st) IN
         IF Evaluated(next) THEN RunGates(Tail(gates), next) ELSE next

\* the phase (+1 or -1) the circuit gives basis state x, 0 when the circuit
\* does not map x to a multiple +1 or -1 of itself
Phase(circuit, x) ==
    LET st == RunGates(Flatten(circuit.gates), BasisState(x)) IN
    IF DOMAIN st.amp = {x} /\ st.hs % 2 = 0
    THEN IF st.amp[x] = Pow2(st.hs \div 2) THEN 1
         ELSE IF st.amp[x] = -Pow2(st.hs \div 2) THEN -1 ELSE 0
    ELSE 0

Marks(circuit, x) == Phase(circuit, x) = -1

(***************************************************************************)
(* linear_mc_gate.py.  U is kept symbolic: a root gate is the pair of its  *)
(* denominator and whether it is inverted.                                 *)
(***************************************************************************)
\* _gate_U_pow: U^(1/|denominator_exponent|), inverted when inv
_gate_U_pow(denominator_exponent, inv) ==
    [p |-> IF denominator_exponent < 0
           THEN -denominator_exponent ELSE denominator_exponent,
     neg |-> inv]

\* gateU.control(1) on wires [control, target]
Controlled(gateU, control, target) ==
    CUGate(gateU.p, gateU.neg, control, target)

RECURSIVE p_ladder(_, _, _)
p_ladder(controls, nqubits, inv) ==
    IF controls = <<>> THEN <<>>
    ELSE LET k == Head(controls)
             exponent == Pow2(nqubits - 1 - k)
             gateU == _gate_U_pow(exponent, inv)
         IN  <<Controlled(gateU, k, nqubits - 1)>>
             \o p_ladder(Tail(controls), nqubits, inv)

\* _build_P_gates with the inverse pass in the order of the direct one
_build_P_gates_same_order(nqubits, circuit, inv) ==
    circuit \o p_ladder(RangeDown(nqubits - 2, 0), nqubits, inv)

\* _build_P_gates with wire 0 in the ladder too
_build_P_gates_from_wire_0(nqubits, circuit, inv) ==
    LET controls == IF inv THEN RangeUp(0, nqubits - 1)
                           ELSE RangeDown(nqubits - 2, -1)
    IN  circuit \o p_ladder(controls, nqubits, inv)

_build_P_gates(nqubits, circuit, inv) ==
    LET controls == IF inv THEN RangeUp(1, nqubits - 1)
                           ELSE RangeDown(nqubits - 2, 0)
    IN  circuit \o p_ladder(controls, nqubits, inv)

\* [qpairs(control, target) for target in range(nqubits)
\*                          for control in range(start, target)]
RECURSIVE qubit_pairs(_, _, _)
qubit_pairs(nqubits, start, target) ==
    IF target >= nqubits THEN <<>>
    ELSE LET controls == RangeUp(start, target) IN
         [i \in DOMAIN controls |->
             [control |-> controls[i], target |-> target]]
         \o qubit_pairs(nqubits, start, target + 1)

PairKey(pair) == pair.control + pair.target

\* list.sort(key=control+target, reverse=...): a stable sort, which keeps
\* pairs of equal key in their order in the list, reversed or not
RECURSIVE sort_from(_, _, _, _)
sort_from(pairs, key, last, reverse) ==
    LET same == SelectSeq(pairs, LAMBDA pair : PairKey(pair) = key) IN
    IF key = last THEN same
    ELSE same \o sort_from(pairs, IF reverse THEN key - 1 ELSE key + 1,
                           last, reverse)

sort_pairs(pairs, nqubits, reverse) ==
    IF reverse THEN sort_from(pairs, 2 * nqubits, 0, TRUE)
    ELSE sort_from(pairs, 0, 2 * nqubits, FALSE)

\* one pass of CRX gates: theta = +-pi / 2^exponent
q_pass(pairs, negative) ==
    [i \in DOMAIN pairs |->
        LET pair == pairs[i]
            exponent == IF pair.control = 0
                        THEN pair.target - pair.control - 1
                        ELSE pair.target - pair.control
        IN  CRXGate(exponent, negative, pair.control, pair.target)]

\* _build_Q_gates with the control ranges of the direct mode in both modes
_build_Q_gates_same_start(nqubits, circuit, inv) ==
    LET first == sort_pairs(qubit_pairs(nqubits, 0, 0), nqubits, TRUE)
        second == sort_pairs(qubit_pairs(nqubits, 1, 0), nqubits, FALSE)
    IN  circuit \o q_pass(first, FALSE) \o q_pass(second, TRUE)

_build_Q_gates(nqubits, circuit, inv) ==
    LET first == sort_pairs(qubit_pairs(nqubits, IF inv THEN 1 ELSE 0, 0),
                            nqubits, TRUE)
        second == sort_pairs(qubit_pairs(nqubits, IF inv THEN 0 ELSE 1, 0),
                             nqubits, FALSE)
    IN  circuit \o q_pass(first, FALSE) \o q_pass(second, TRUE)

\* step 2 of linear_mc_gate: compose the controlled root on [0, target] of
\* the block.  A wire the block does not have is an error.  The two wires
\* being the same one is an error where compose checks for duplicates
\* (dup_check) and an instruction on [0, 0] where it does not.
root_step(nqubits, gates, target, dup_check) ==
    LET exponent == Pow2(nqubits - 2)
        gateU == _gate_U_pow(exponent, FALSE)
    IN  IF target > nqubits - 1
        THEN Raise(IF dup_check THEN "CircuitError" ELSE "IndexError", FALSE)
        ELSE IF target = 0 /\ dup_check
        THEN Raise("CircuitError", FALSE)
        ELSE Circuit(nqubits, Append(gates, Controlled(gateU, 0, target)))

\* linear_mc_gate(gate, circuit, controls, target) on an empty circuit of
\* `width` wires: the circuit afterwards, or the exception
linear_mc_gate(width, controls, target, dup_check) ==
    LET nqubits == Len(controls) + 1
        direct == _build_P_gates(nqubits, <<>>, FALSE)
        rooted == root_step(nqubits, direct, target, dup_check)
    IN  IF rooted.kind = "raise" THEN rooted
        ELSE LET corrected == _build_Q_gates(nqubits - 1, rooted.gates, FALSE)
                 undone == _build_P_gates(nqubits, corrected, TRUE)
                 gate_circuit == _build_Q_gates(nqubits - 1, undone, TRUE)
             IN  Circuit(width, Remap(gate_circuit, controls \o <<target>>))

(***************************************************************************)
(* What a block of controlled roots and CRX gates does to a basis state.   *)
(*                                                                         *)
(* _gate_U_pow builds the root from U's eigenvalues and eigenvectors:      *)
(* lambda1^(1/k) v1 v1* + lambda2^(1/k) v2 v2*, inverted when inv.  In the *)
(* eigenbasis of U on the wire a root gate acts on, bit 0 being v1 and bit *)
(* 1 being v2, the controlled root multiplies a basis state whose control  *)
(* bit is 1 by lambda1^(+-1/k) or lambda2^(+-1/k).  The eigenvalues stay   *)
(* symbolic: a term carries e0 and e1, the powers of lambda1^(1/unit) and  *)
(* lambda2^(1/unit) it has collected, unit being the largest denominator   *)
(* of the circuit (every denominator is a power of two dividing it).       *)
(*                                                                         *)
(* RX(theta) is cos(theta/2) on the diagonal and -i sin(theta/2) off it.   *)
(* With zeta = e^(i pi / half) and theta/2 = pi s / half, 2 cos(theta/2)   *)
(* is zeta^s + zeta^-s and -2i sin(theta/2) is -(zeta^s - zeta^-s).  An    *)
(* amplitude is a polynomial in zeta of degree < half with integer         *)
(* coefficients (zeta^half = -1), times 2^-d for the state's d.            *)
(***************************************************************************)
MaxOf(S) == IF S = {} THEN 0 ELSE CHOOSE m \in S : \A k \in S : k <= m

\* the largest denominator among the root gates
RootUnit(gates) ==
    LET ps == {gates[i].p : i \in {j \in DOMAIN gates : gates[j].op = "cu"}}
    IN  IF ps = {} THEN 1 ELSE MaxOf(ps)

\* half the order of zeta: theta/2 = pi / 2^(p+1) for the largest p
HalfOrder(gates) ==
    Pow2(1 + MaxOf({gates[i].p :
                      i \in {j \in DOMAIN gates : gates[j].op = "crx"}}))

ZeroPoly(half) == [i \in 0..(half - 1) |-> 0]

OnePoly(half) == [i \in 0..(half - 1) |-> IF i = 0 THEN 1 ELSE 0]

\* a times zeta^s, for s in 0..2*half-1
MulZeta(a, s, half) ==
    [i \in 0..(half - 1) |->
        LET j == (i - s + 2 * half) % (2 * half) IN
        IF j < half THEN a[j] ELSE -a[j - half]]

PolyAdd(a, b) == [i \in DOMAIN a |-> a[i] + b[i]]

PolyScale(k, a) == [i \in DOMAIN a |-> k * a[i]]

\* a times 2 cos(pi s / half)
TwoCos(a, s, half) ==
    PolyAdd(MulZeta(a, s, half), MulZeta(a, 2 * half - s, half))

\* a times -2i sin(pi s / half)
MinusTwoISin(a, s, half) ==
    PolyAdd(MulZeta(a, 2 * half - s, half), PolyScale(-1, MulZeta(a, s, half)))

TermState(b, half) ==
    [amp |-> (<<b, 0, 0>> :> OnePoly(half)), d |-> 0, half |-> half]

PolyAt(st, key) ==
    IF key \in DOMAIN st.amp THEN st.amp[key] ELSE ZeroPoly(st.half)

\* amplitudes over 2^d in lowest terms
RECURSIVE Normalise(_)
Normalise(st) ==
    IF st.d > 0 /\ \A key \in DOMAIN st.amp :
                      \A i \in DOMAIN st.amp[key] : st.amp[key][i] % 2 = 0
    THEN Normalise([st EXCEPT
                      !.amp = [key \in DOMAIN st.amp |->
                                 [i \in DOMAIN st.amp[key] |->
                                     st.amp[key][i] \div 2]],
                      !.d = st.d - 1])
    ELSE st

\* the controlled root U^(+-1/p) with control g.wires[1] on g.wires[2]
ApplyRoot(g, unit, st) ==
    LET delta == IF g.neg THEN -(unit \div g.p) ELSE unit \div g.p
        image(key) ==
            IF Bit(key[1], g.wires[1]) = 0 THEN key
            ELSE IF Bit(key[1], g.wires[2]) = 0
            THEN <<key[1], key[2] + delta, key[3]>>
            ELSE <<key[1], key[2], key[3] + delta>>
        source(key) ==
            IF Bit(key[1], g.wires[1]) = 0 THEN key
            ELSE IF Bit(key[1], g.wires[2]) = 0
            THEN <<key[1], key[2] - delta, key[3]>>
            ELSE <<key[1], key[2], key[3] - delta>>
    IN  [st EXCEPT !.amp = [key \in {image(k) : k \in DOMAIN st.amp} |->
                               st.amp[source(key)]]]

\* CRX(+-pi / 2^p) with control g.wires[1] on g.wires[2]
ApplyCRX(g, st) ==
    LET s == st.half \div Pow2(g.p + 1)
        flipped(key) == <<Flip(key[1], g.wires[2]), key[2], key[3]>>
        off(a) == IF g.neg
                  THEN PolyScale(-1, MinusTwoISin(a, s, st.half))
                  ELSE MinusTwoISin(a, s, st.half)
        val(key) ==
            IF Bit(key[1], g.wires[1]) = 0
            THEN PolyScale(2, PolyAt(st, key))
            ELSE PolyAdd(TwoCos(PolyAt(st, key), s, st.half),
                         off(PolyAt(st, flipped(key))))
        cand == DOMAIN st.amp
                \cup {flipped(k) : k \in {q \in DOMAIN st.amp :
                                            Bit(q[1], g.wires[1]) = 1}}
    IN  Normalise([st EXCEPT
                     !.amp = [key \in {k \in cand : val(k) # ZeroPoly(st.half)}
                                |-> val(key)],
                     !.d = st.d + 1])

RECURSIVE RunBlock(_, _, _)
RunBlock(gates, unit, st) ==
    IF gates = <<>> THEN st
    ELSE LET g == Head(gates)
             next == IF g.op = "cu" THEN ApplyRoot(g, unit, st)
                     ELSE ApplyCRX(g, st)
         IN  IF Evaluated(next) THEN RunBlock(Tail(gates), unit, next)
             ELSE next

\* the state the circuit takes basis state b to
Evolve(circuit, b) ==
    RunBlock(circuit.gates, RootUnit(circuit.gates),
             TermState(b, HalfOrder(circuit.gates)))

\* b with amplitude 1 and the eigenvalue of U on `target` raised to `power`
BasisTimesU(b, target, power, unit, half) ==
    [amp |-> ((IF Bit(b, target) = 0
               THEN <<b, power * unit, 0>>
               ELSE <<b, 0, power * unit>>) :> OnePoly(half)),
     d |-> 0, half |-> half]

\* the circuit is U on target controlled on all of controls: on every basis
\* state it acts as U on target when all the control wires are 1 and as the
\* identity otherwise
IsControlledU(circuit, controls, target) ==
    \A b \in 0..(Pow2(circuit.width) - 1) :
        Evolve(circuit, b) =
            BasisTimesU(b, target, IF AllOnes(b, controls) THEN 1 ELSE 0,
                        RootUnit(circuit.gates), HalfOrder(circuit.gates))

(***************************************************************************)
(* The caller: one call, then the value it handed back.  nqubits is the    *)
(* width of the circuit of the call; dup_check is whether the library's    *)
(* compose rejects a wire named twice.                                     *)
(***************************************************************************)
NoCall ==
    [fn |-> "", file |-> "", number |-> 0, nqubits |-> 0,
     lower_boundary |-> 0, upper_boundary |-> 0,
     controls |-> <<>>, target |-> 0, inv |-> FALSE, dup_check |-> FALSE]

Files == {"code_oracle", "functions_oracles"}

Widths == 1..MaxQubits

\* the numbers of the register, and one that needs a bit more
Numbers(nqubits) == 0..Pow2(nqubits)

Init ==
    /\ pc = "idle"
    /\ call = NoCall
    /\ result = NoValue

Returned(c, r) ==
    /\ pc' = "returned"
    /\ call' = c
    /\ result' = r

CallToBinary ==
    /\ pc = "idle"
    /\ \E file \in Files, nqubits \in Widths :
       \E number \in Numbers(nqubits) :
          Returned([NoCall EXCEPT !.fn = "to_binary", !.file = file,
                                  !.number = number, !.nqubits = nqubits],
                   to_binary(number, nqubits))

CallOracleLessThan ==
    /\ pc = "idle"
    /\ \E file \in Files, nqubits \in Widths :
       \E number \in Numbers(nqubits) :
          Returned([NoCall EXCEPT !.fn = "oracle_less_than", !.file = file,
                                  !.number = number, !.nqubits = nqubits],
                   oracle_less_than(file, number, nqubits))

CallOracleGreaterThan ==
    /\ pc = "idle"
    /\ \E nqubits \in Widths :
       \E number \in Numbers(nqubits) :
          Returned([NoCall EXCEPT !.fn = "oracle_greater_than",
                                  !.file = "functions_oracles",
                                  !.number = number, !.nqubits = nqubits],
                   oracle_greater_than(number, nqubits))

CallOracleInterval ==
    /\ pc = "idle"
    /\ \E nqubits \in Widths :
       \E lo \in Numbers(nqubits), hi \in Numbers(nqubits) :
          Returned([NoCall EXCEPT !.fn = "oracle_interval",
                                  !.file = "functions_oracles",
                                  !.lower_boundary = lo,
                                  !.upper_boundary = hi,
                                  !.nqubits = nqubits],
                   oracle_interval(lo, hi, nqubits))

CallDiagonalOracleLessThan ==
    /\ pc = "idle"
    /\ \E nqubits \in Widths :
       \E number \in Numbers(nqubits) :
          Returned([NoCall EXCEPT !.fn = "diagonal_oracle_less_than",
                                  !.file = "functions_oracles",
                                  !.number = number, !.nqubits = nqubits],
                   diagonal_oracle_less_than(number, nqubits))

\* sequences of distinct wires of 0..width-1, of length len
RECURSIVE Arrangements(_, _)
Arrangements(wires, len) ==
    IF len = 0 THEN {<<>>}
    ELSE UNION {{<<w>> \o rest : rest \in Arrangements(wires \ {w}, len - 1)} :
                  w \in wires}

Range(seq) == {seq[i] : i \in DOMAIN seq}

\* linear_mc_gate on an empty circuit: up to MaxPermuted controls, distinct
\* wires in any order and any other wire as target, of a circuit with one
\* wire to spare; beyond that, controls [0..c-1] and target c
CallLinearMcGate ==
    /\ pc = "idle"
    /\ \E c \in 1..MaxControls, dup_check \in BOOLEAN :
       \E width \in (IF c <= MaxPermuted THEN {c + 1, c + 2} ELSE {c + 1}) :
       \E controls \in (IF c <= MaxPermuted
                        THEN Arrangements(0..(width - 1), c)
                        ELSE {RangeUp(0, c)}) :
       \E target \in (0..(width - 1)) \ Range(controls) :
          Returned([NoCall EXCEPT !.fn = "linear_mc_gate",
                                  !.dup_check = dup_check,
                                  !.nqubits = width,
                                  !.controls = controls, !.target = target],
                   linear_mc_gate(width, controls, target, dup_check))

CallBuildPGates ==
    /\ pc = "idle"
    /\ \E nqubits \in 2..MaxLadder, inv \in BOOLEAN :
          Returned([NoCall EXCEPT !.fn = "_build_P_gates",
                                  !.nqubits = nqubits, !.inv = inv],
                   Circuit(nqubits, _build_P_gates(nqubits, <<>>, inv)))

CallBuildQGates ==
    /\ pc = "idle"
    /\ \E nqubits \in 1..MaxLadder, inv \in BOOLEAN :
          Returned([NoCall EXCEPT !.fn = "_build_Q_gates",
                                  !.nqubits = nqubits, !.inv = inv],
                   Circuit(nqubits, _build_Q_gates(nqubits, <<>>, inv)))

Next ==
    \/ CallToBinary
    \/ CallOracleLessThan
    \/ CallOracleGreaterThan
    \/ CallOracleInterval
    \/ CallDiagonalOracleLessThan
    \/ CallLinearMcGate
    \/ CallBuildPGates
    \/ CallBuildQGates

Spec == Init /\ [][Next]_vars

(***************************************************************************)
(* Properties.                                                             *)
(***************************************************************************)
ReturnedFrom(fn) == pc = "returned" /\ call.fn = fn

BasisStates(nqubits) == 0..(Pow2(nqubits) - 1)

\* the number does not fit in nbits binary digits
TooWide(number, nbits) == nbits < Len(Bin(number))

\* C1: oracle_less_than(N, nqubits), its multi-controlled Z being the exact
\* one of code_oracle.py, builds for every N in [0, 2^nqubits) a circuit that
\* gives basis state x the phase -1 if x < N and +1 otherwise.
C1_LessThanMarksBelowN ==
    (ReturnedFrom("oracle_less_than") /\ call.file = "code_oracle"
        /\ call.number < Pow2(call.nqubits))
    => /\ result.kind = "circuit"
       /\ \A x \in BasisStates(call.nqubits) :
             Phase(result, x) = IF x < call.number THEN -1 ELSE 1

\* What holds of oracle_less_than in code_oracle.py: for every N in
\* [1, 2^nqubits) the circuit is built and marks exactly the x < N.
LessThanMarksBelowPositiveN ==
    (ReturnedFrom("oracle_less_than") /\ call.file = "code_oracle"
        /\ call.number >= 1 /\ call.number < Pow2(call.nqubits))
    => /\ result.kind = "circuit"
       /\ \A x \in BasisStates(call.nqubits) :
             Phase(result, x) = IF x < call.number THEN -1 ELSE 1

\* C2: oracle_interval(lo, hi, nqubits) builds, for all lo, hi in
\* [0, 2^nqubits), a circuit that gives x the phase -1 if lo < x < hi and +1
\* otherwise.
C2_IntervalMarksStrictlyBetween ==
    (ReturnedFrom("oracle_interval")
        /\ call.lower_boundary < Pow2(call.nqubits)
        /\ call.upper_boundary < Pow2(call.nqubits))
    => /\ result.kind = "circuit"
       /\ \A x \in BasisStates(call.nqubits) :
             Phase(result, x) =
                IF call.lower_boundary < x /\ x < call.upper_boundary
                THEN -1 ELSE 1

\* C3: for every N in [0, 2^nqubits) oracle_greater_than(N) and
\* oracle_less_than(N) are both built; every x # N is marked by exactly one
\* of them and x = N gets the phase +1 from both.
C3_GreaterThanComplementsLessThan ==
    (ReturnedFrom("oracle_greater_than") /\ call.number < Pow2(call.nqubits))
    => LET less == oracle_less_than("functions_oracles", call.number,
                                    call.nqubits)
       IN  /\ result.kind = "circuit"
           /\ less.kind = "circuit"
           /\ \A x \in BasisStates(call.nqubits) :
                 IF x = call.number
                 THEN Phase(result, x) = 1 /\ Phase(less, x) = 1
                 ELSE Marks(result, x) # Marks(less, x)

\* C4: for every N in [0, 2^nqubits) diagonal_oracle_less_than(N) and
\* oracle_less_than(N) are both built and give every basis state the same
\* phase, +1 or -1.
C4_DiagonalAgreesWithLessThan ==
    (ReturnedFrom("diagonal_oracle_less_than")
        /\ call.number < Pow2(call.nqubits))
    => LET less == oracle_less_than("functions_oracles", call.number,
                                    call.nqubits)
       IN  /\ result.kind = "circuit"
           /\ less.kind = "circuit"
           /\ \A x \in BasisStates(call.nqubits) :
                 /\ Phase(result, x) \in {-1, 1}
                 /\ Phase(result, x) = Phase(less, x)

\* C5: for up to 4 controls, the block linear_mc_gate(U, controls, target)
\* builds acts on target as U when all control wires are 1 and as the
\* identity when a control wire is 0.
C5_BlockIsControlledU ==
    (ReturnedFrom("linear_mc_gate") /\ Len(call.controls) <= MaxPermuted)
    => /\ result.kind = "circuit"
       /\ IsControlledU(result, call.controls, call.target)

\* What holds of linear_mc_gate: called with target = len(controls), the
\* last wire of the block, it builds U on target controlled on all controls.
BlockIsControlledUOnLastWire ==
    (ReturnedFrom("linear_mc_gate") /\ Len(call.controls) <= MaxPermuted
        /\ call.target = Len(call.controls))
    => /\ result.kind = "circuit"
       /\ IsControlledU(result, call.controls, call.target)

\* the two-qubit gates linear_mc_gate appends for c controls
GateCount(c) == Len(linear_mc_gate(c + 1, RangeUp(0, c), c, TRUE).gates)

\* C6: the number of two-qubit gates linear_mc_gate appends is linear in
\* c = len(controls): the counts for c = 2, 4, 8, 16 lie on one line.
C6_GateCountOnALine ==
    (ReturnedFrom("linear_mc_gate") /\ result.kind = "circuit"
        /\ Len(call.controls) \in {2, 4, 8, 16})
    => 2 * (Len(result.gates) - GateCount(2)) =
          (GateCount(4) - GateCount(2)) * (Len(call.controls) - 2)

\* C6, amended: the number of two-qubit gates (controlled roots and CRX)
\* linear_mc_gate appends is 2c^2 - 2c + 1 for c = len(controls).
C6_GateCountQuadratic ==
    (ReturnedFrom("linear_mc_gate") /\ result.kind = "circuit")
    => LET c == Len(call.controls) IN
       /\ Len(result.gates) = 2 * c * c - 2 * c + 1
       /\ \A i \in DOMAIN result.gates :
             /\ result.gates[i].op \in {"cu", "crx"}
             /\ Len(result.gates[i].wires) = 2

C6_Witness ==
    /\ ReturnedFrom("linear_mc_gate")
    /\ result.kind = "circuit"
    /\ Len(call.controls) = 16
    /\ Len(result.gates) = 481

\* C7: when nqubits is smaller than the bit length of the number, to_binary
\* and the oracle builders end in an error: nothing is returned.
C7_TooSmallWidthRaises ==
    (\/ /\ pc = "returned"
        /\ call.fn \in {"to_binary", "oracle_less_than"}
        /\ TooWide(call.number, call.nqubits)
     \/ /\ ReturnedFrom("oracle_greater_than")
        /\ TooWide(call.number, call.nqubits)
     \/ /\ ReturnedFrom("oracle_interval")
        /\ \/ TooWide(call.lower_boundary, call.nqubits)
           \/ TooWide(call.upper_boundary, call.nqubits))
    => result.kind = "raise"

\* C8: for distinct controls and a target not among them, linear_mc_gate
\* puts the step-2 root U^(1/2^(nqubits-2)) on block wires (0, nqubits-1),
\* so that in the composed circuit every controlled root acts on the
\* caller's target wire and is controlled by a wire of controls.
C8_RootsActOnTarget ==
    ReturnedFrom("linear_mc_gate")
    => LET nqubits == Len(call.controls) + 1 IN
       /\ result.kind = "circuit"
       /\ result.gates[nqubits - 1].op = "cu"
       /\ result.gates[nqubits - 1].p = Pow2(nqubits - 2)
       /\ result.gates[nqubits - 1].wires = <<call.controls[1], call.target>>
       /\ \A i \in DOMAIN result.gates :
             result.gates[i].op = "cu"
             => /\ result.gates[i].wires[2] = call.target
                /\ result.gates[i].wires[1] \in Range(call.controls)

\* C9: _build_P_gates(nqubits, inv=False) appends, for k = nqubits-2 down to
\* 1, the root 2^(nqubits-1-k) controlled on wire k on wire nqubits-1;
\* inv=True appends the inverted roots of the same triples in the reversed
\* order; wire 0 and the target are never a control.
C9_PLadderMirror ==
    ReturnedFrom("_build_P_gates")
    => LET n == call.nqubits
           gs == result.gates
           other == _build_P_gates(n, <<>>, ~call.inv)
       IN  /\ Len(gs) = n - 2
           /\ Len(other) = n - 2
           /\ \A i \in 1..(n - 2) :
                 LET k == IF call.inv THEN i ELSE n - 1 - i IN
                 /\ gs[i].op = "cu"
                 /\ gs[i].wires = <<k, n - 1>>
                 /\ gs[i].p = Pow2(n - 1 - k)
                 /\ gs[i].neg = call.inv
                 /\ gs[i].wires[1] \notin {0, n - 1}
                 /\ other[n - 1 - i].wires = gs[i].wires
                 /\ other[n - 1 - i].p = gs[i].p
                 /\ other[n - 1 - i].neg = ~gs[i].neg

C9_Witness ==
    /\ ReturnedFrom("_build_P_gates")
    /\ call.inv
    /\ call.nqubits = 5
    /\ Len(result.gates) = 3
    /\ result.gates[1].wires = <<1, 4>>
    /\ result.gates[1].p = 8

\* a sequence of CRX gates reversed, every angle negated
ReversedNegated(gs) ==
    [i \in DOMAIN gs |->
        [gs[Len(gs) + 1 - i] EXCEPT !.neg = ~gs[Len(gs) + 1 - i].neg]]

GateKey(g) == g.wires[1] + g.wires[2]

\* positions i..j of gs hold gates of one control+target sum and one sign
SameRun(gs, i, j) ==
    \A k \in (IF i <= j THEN i..j ELSE j..i) :
        GateKey(gs[k]) = GateKey(gs[i]) /\ gs[k].neg = gs[i].neg

\* C10: the CRX sequence of _build_Q_gates(inv=True) is the inverse of the
\* one of _build_Q_gates(inv=False): the direct sequence reversed with every
\* angle negated, up to the order of gates of equal control+target sum, any
\* two of which act on disjoint wire pairs; applied after the direct
\* sequence it restores every basis state.
C10_QLadderInverse ==
    ReturnedFrom("_build_Q_gates")
    => LET n == call.nqubits
           gs == result.gates
           other == _build_Q_gates(n, <<>>, ~call.inv)
           mirror == ReversedNegated(other)
           direct == IF call.inv THEN other ELSE gs
           inverse == IF call.inv THEN gs ELSE other
           both == Circuit(n, direct \o inverse)
       IN  /\ Len(gs) = Len(mirror)
           /\ \A i \in DOMAIN gs :
                 /\ gs[i].op = "crx"
                 /\ GateKey(gs[i]) = GateKey(mirror[i])
                 /\ gs[i].neg = mirror[i].neg
                 /\ \E j \in DOMAIN gs :
                       SameRun(gs, i, j) /\ mirror[j] = gs[i]
                 /\ \A j \in DOMAIN gs :
                       (j # i /\ SameRun(gs, i, j))
                       => Range(gs[i].wires) \cap Range(gs[j].wires) = {}
           /\ n <= MaxPermuted
              => \A b \in BasisStates(n) :
                    Evolve(both, b) =
                       BasisTimesU(b, 0, 0, 1, HalfOrder(both.gates))

C10_Witness ==
    /\ ReturnedFrom("_build_Q_gates")
    /\ call.inv
    /\ call.nqubits = 4
    /\ Len(result.gates) = 9
    /\ \E i \in DOMAIN result.gates :
          result.gates[i] #
             ReversedNegated(_build_Q_gates(4, <<>>, FALSE))[i]

\* the retained digits of the call's number: padded, trailing zeros stripped
Retained == RStrip0(to_binary(call.number, call.nqubits).bits)

\* the number of X gates a gate sequence puts on wire w
XCount(gates, w) ==
    Cardinality({i \in DOMAIN gates :
                    gates[i].op = "x" /\ gates[i].wires = <<w>>})

\* the wires a gate sequence acts on, appended circuits inlined
Touched(gates) ==
    LET flat == Flatten(gates) IN
    UNION {Range(flat[i].wires) : i \in DOMAIN flat}

\* C11: in every circuit oracle_less_than builds, each wire gets an even
\* number of X gates, the wires of the stripped trailing zero digits get no
\* gate, and every basis state is mapped to itself with phase +1 or -1.
C11_XGatesUndone ==
    (ReturnedFrom("oracle_less_than") /\ result.kind = "circuit")
    => /\ \A w \in 0..(call.nqubits - 1) :
             /\ XCount(Flatten(result.gates), w) % 2 = 0
             /\ w < call.nqubits - Len(Retained)
                   => w \notin Touched(result.gates)
       /\ \A x \in BasisStates(call.nqubits) : Phase(result, x) \in {1, -1}

\* oracle_less_than(40, 6), digits 101 and three stripped zeros: the 0 digit
\* on wire 4 gets one X in the loop and one in the final pass.
C11_Witness ==
    /\ ReturnedFrom("oracle_less_than")
    /\ call.file = "code_oracle"
    /\ call.number = 40
    /\ call.nqubits = 6
    /\ result.kind = "circuit"
    /\ Retained = <<1, 0, 1>>
    /\ XCount(result.gates, 4) = 2
    /\ XCount(result.gates, 3) = 2
    /\ \E i \in DOMAIN result.gates : result.gates[i].op = "circuit"
    /\ Touched(result.gates) = {3, 4, 5}

\* the circuit after the steps for the first k retained digits, or the
\* exception a step raised
StepsDone(file, num_binary, nqubits, k) ==
    remaining_digits(file, SubSeq(num_binary, 1, k), nqubits, 1,
                     first_digit(num_binary, nqubits))

\* the sign (+1 or -1) basis state x carries after the gates, the X gates
\* having moved it to another basis state or not; 0 when it has been spread
SignAfter(gates, x) ==
    LET st == RunGates(Flatten(gates), BasisState(x)) IN
    IF Cardinality(DOMAIN st.amp) = 1 /\ st.hs % 2 = 0
    THEN LET a == st.amp[CHOOSE b \in DOMAIN st.amp : TRUE] IN
         IF a = Pow2(st.hs \div 2) THEN 1
         ELSE IF a = -Pow2(st.hs \div 2) THEN -1 ELSE 0
    ELSE 0

\* the step for digit position i (0 the first digit) is carried out and flips
\* the phase of x
StepFlips(file, num_binary, nqubits, i, x) ==
    LET before == StepsDone(file, num_binary, nqubits, i)
        after == StepsDone(file, num_binary, nqubits, i + 1)
        was == IF i = 0 THEN 1 ELSE SignAfter(before.gates, x)
    IN  /\ after.kind = "circuit"
        /\ SignAfter(after.gates, x) = -was

\* digit i is 1, x has the digits of the number above it and a 0 at it
BelowAtDigit(num_binary, nqubits, i, x) ==
    /\ num_binary[i + 1] = 1
    /\ Bit(x, nqubits - 1 - i) = 0
    /\ \A j \in 0..(i - 1) : Bit(x, nqubits - 1 - j) = num_binary[j + 1]

StepsMarkBelow(file, number, nqubits) ==
    LET num_binary == RStrip0(to_binary(number, nqubits).bits)
        positions == 0..(Len(num_binary) - 1)
    IN  /\ \A i \in positions :
              /\ StepsDone(file, num_binary, nqubits, i + 1).kind = "circuit"
              /\ \A x \in BasisStates(nqubits) :
                    StepFlips(file, num_binary, nqubits, i, x)
                    = BelowAtDigit(num_binary, nqubits, i, x)
        /\ \A x \in BasisStates(nqubits) :
              Cardinality({i \in positions :
                              StepFlips(file, num_binary, nqubits, i, x)})
              = IF x < number THEN 1 ELSE 0

\* C12: in oracle_less_than(number, nqubits), 1 <= number < 2^nqubits, the
\* step for each retained digit i is carried out; it flips the phase of x
\* exactly when the digit is 1, x agrees with the number above digit i and
\* has a 0 at digit i (so the step of a 0 digit flips nothing); every
\* x < number is flipped by exactly one step and every other x by none.
C12_StepsMarkBelow ==
    (ReturnedFrom("oracle_less_than")
        /\ call.number >= 1 /\ call.number < Pow2(call.nqubits))
    => StepsMarkBelow(call.file, call.number, call.nqubits)

\* What holds of oracle_less_than in code_oracle.py, whose multi_control_z
\* builds the multi-controlled Z: the steps are as C12 says.
StepsMarkBelowInCodeOracle ==
    (ReturnedFrom("oracle_less_than") /\ call.file = "code_oracle"
        /\ call.number >= 1 /\ call.number < Pow2(call.nqubits))
    => StepsMarkBelow(call.file, call.number, call.nqubits)

====
